---- MODULE Spec2Model ----
(***************************************************************************)
(* Model of scripts/sql/snowflake/validate_snowsql.py.                     *)
(*                                                                         *)
(* Text is a sequence of one-character strings.  The checker's output is a *)
(* sequence of words, where "\n" stands for a run of whitespace.           *)
(* Two specifications:                                                     *)
(*   SubSpec  applies substitute_tokens to every text and environment of   *)
(*            the bounded input space;                                     *)
(*   Spec     runs main() over every CHANGED_FILES list, disk state and    *)
(*            outcome of the external checker.                             *)
(***************************************************************************)
EXTENDS Integers, Sequences, FiniteSets, TLC

VARIABLES
    \* substitute_tokens, called on its own
    sub_pc, content, environ, substituted, missing,
    \* main
    pc, files_env, disk, files, idx, all_errors, failed_files, exit_code,
    error_log, log_written,
    \* validate_file
    tmp_files, tmp_path, tmp_made, result, passed, output, missing_tokens, exc,
    \* history, per candidate: the number of subprocess.run calls made for
    \* it, and what validate_file returned for it
    runs, returned

subVars  == <<sub_pc, content, environ, substituted, missing>>
mainVars == <<pc, files_env, disk, files, idx, all_errors, failed_files,
              exit_code, error_log, log_written>>
callVars == <<tmp_files, tmp_path, tmp_made, result, passed, output,
              missing_tokens, exc>>
histVars == <<runs, returned>>
vars     == <<subVars, mainVars, callVars, histVars>>

----------------------------------------------------------------------------
\* Bounds

MaxPieces == 4     \* most pieces an input text of substitute_tokens is made of
MaxFiles == 3      \* longest CHANGED_FILES list

----------------------------------------------------------------------------
\* Helpers

Range(s) == {s[i] : i \in 1..Len(s)}

SeqsUpTo(S, n) == UNION {[1..k -> S] : k \in 0..n}

MinOf(S) == CHOOSE x \in S : \A y \in S : x <= y

RECURSIVE Flatten(_)
Flatten(ss) == IF ss = <<>> THEN <<>> ELSE Head(ss) \o Flatten(Tail(ss))

----------------------------------------------------------------------------
\* Token substitution

\* The input texts: every concatenation of at most MaxPieces pieces, a piece
\* being one character, an opening delimiter or a whole reference.
Pieces == {<<"$">>, <<"{">>, <<"}">>, <<"a">>, <<"'">>,
           <<"$", "{">>, <<"$", "{", "a", "}">>}

Texts == {Flatten(ps) : ps \in SeqsUpTo(Pieces, MaxPieces)}

\* os.environ: a mapping from names to values; a name outside its domain
\* is one for which os.environ.get returns None.
EnvValues == {<<>>, <<"}", "a">>, <<"$", "{", "a", "}">>}
Envs == UNION {[K -> EnvValues] : K \in SUBSET {<<"a">>}}

\* f"'__MISSING_{token}__'"
Placeholder(token) ==
    <<"'", "_", "_", "M", "I", "S", "S", "I", "N", "G", "_">> \o token \o <<"_", "_", "'">>

\* The pattern with '*' in place of '+': an empty name matches.
MatchEndStar(text, pos) ==
    IF pos + 1 <= Len(text) /\ text[pos] = "$" /\ text[pos + 1] = "{"
    THEN LET closes == {j \in (pos + 2)..Len(text) : text[j] = "}"}
         IN  IF closes = {} THEN 0 ELSE MinOf(closes)
    ELSE 0

\* r'\$\{([^}]+)\}' tried at position pos: the position of the closing
\* brace of the match, or 0 when the pattern does not match there.
\* [^}]+ takes every character up to the first "}", and needs one at least.
MatchEnd(text, pos) ==
    IF pos + 1 <= Len(text) /\ text[pos] = "$" /\ text[pos + 1] = "{"
    THEN LET closes == {j \in (pos + 2)..Len(text) : text[j] = "}"}
         IN  IF closes = {} THEN 0
             ELSE IF MinOf(closes) >= pos + 3 THEN MinOf(closes) ELSE 0
    ELSE 0

\* replacer with the name left out of the placeholder.
ReplacerAnonymous(token, env) ==
    IF token \notin DOMAIN env
    THEN [text |-> Placeholder(<<>>), missing |-> <<token>>]
    ELSE [text |-> env[token], missing |-> <<>>]

\* replacer testing 'if not value' instead of 'if value is None'.
ReplacerFalsy(token, env) ==
    IF token \notin DOMAIN env \/ env[token] = <<>>
    THEN [text |-> Placeholder(token), missing |-> <<token>>]
    ELSE [text |-> env[token], missing |-> <<>>]

\* replacer(match): the replacement text, and what it appends to missing.
Replacer(token, env) ==
    IF token \notin DOMAIN env
    THEN [text |-> Placeholder(token), missing |-> <<token>>]
    ELSE [text |-> env[token], missing |-> <<>>]

\* re.sub: leftmost, non-overlapping matches, scanning from pos; the text
\* outside the matches is copied, and a replacement is not scanned again.
RECURSIVE ReSub(_, _, _)
ReSub(text, env, pos) ==
    IF pos > Len(text) THEN [text |-> <<>>, missing |-> <<>>]
    ELSE LET e == MatchEnd(text, pos) IN
         IF e = 0
         THEN LET rest == ReSub(text, env, pos + 1)
              IN  [text |-> <<text[pos]>> \o rest.text, missing |-> rest.missing]
         ELSE LET rep  == Replacer(SubSeq(text, pos + 2, e - 1), env)
                  rest == ReSub(text, env, e + 1)
              IN  [text    |-> rep.text \o rest.text,
                   missing |-> rep.missing \o rest.missing]

substitute_tokens(text, env) == ReSub(text, env, 1)

\* No subprocess result yet.
NoResult == [kind |-> "none", returncode |-> 0, stdout |-> <<>>, stderr |-> <<>>]

SubInit ==
    /\ sub_pc = "call"
    /\ content \in Texts
    /\ environ \in Envs
    /\ substituted = <<>>
    /\ missing = <<>>
    /\ pc = "idle"
    /\ files_env = <<>> /\ disk = {} /\ files = <<>> /\ idx = 0
    /\ all_errors = <<>> /\ failed_files = <<>> /\ exit_code = 0
    /\ error_log = <<>> /\ log_written = FALSE
    /\ tmp_files = {} /\ tmp_path = 0 /\ tmp_made = 0 /\ result = NoResult
    /\ passed = FALSE /\ output = <<>> /\ missing_tokens = <<>> /\ exc = "none"
    /\ runs = <<>> /\ returned = <<>>

CallSubstitute ==
    /\ sub_pc = "call"
    /\ LET r == substitute_tokens(content, environ)
       IN  /\ substituted' = r.text
           /\ missing' = r.missing
    /\ sub_pc' = "done"
    /\ UNCHANGED <<content, environ, mainVars, callVars, histVars>>

SubNext == CallSubstitute

SubSpec == SubInit /\ [][SubNext]_vars

----------------------------------------------------------------------------
\* The token references of a text, stated without scanning

\* text[i..j] has the shape of a reference: the opening delimiter, a
\* non-empty name holding no closing brace, the closing brace.
IsRef(text, i, j) ==
    /\ 1 <= i /\ i + 3 <= j /\ j <= Len(text)
    /\ text[i] = "$" /\ text[i + 1] = "{" /\ text[j] = "}"
    /\ \A k \in (i + 2)..(j - 1) : text[k] # "}"

\* Two shapes either end at the same brace or do not overlap, so the
\* references re.sub replaces are, for each closing brace, the leftmost.
Refs(text) ==
    {r \in (1..Len(text)) \X {j \in 1..Len(text) : text[j] = "}"} :
        /\ IsRef(text, r[1], r[2])
        /\ \A i \in 1..(r[1] - 1) : ~IsRef(text, i, r[2])}

\* The references in the order of the text, each with its name.
RefSeq(text) ==
    LET R == Refs(text)
    IN  [k \in 1..Cardinality(R) |->
            LET r == CHOOSE q \in R : Cardinality({p \in R : p[1] < q[1]}) = k - 1
            IN  [from |-> r[1], to |-> r[2], name |-> SubSeq(text, r[1] + 2, r[2] - 1)]]

\* What a reference named name is to become.
Expected(name, env) == IF name \in DOMAIN env THEN env[name] ELSE Placeholder(name)

\* By how much the replacements of the first k references of rs move the
\* text that follows them.
RECURSIVE Shift(_, _, _)
Shift(rs, env, k) ==
    IF k = 0 THEN 0
    ELSE Shift(rs, env, k - 1) + Len(Expected(rs[k].name, env))
         - (rs[k].to - rs[k].from + 1)

\* Where the replacement of the k-th reference starts in the output.
OutStart(rs, env, k) == rs[k].from + Shift(rs, env, k - 1)

\* s holds p at position at.
HoldsAt(s, at, p) ==
    /\ 1 <= at /\ at + Len(p) - 1 <= Len(s)
    /\ SubSeq(s, at, at + Len(p) - 1) = p

\* The names of the references whose name the environment lacks, in the
\* order of the text, one entry per reference.
RECURSIVE AbsentNames(_, _, _)
AbsentNames(rs, env, k) ==
    IF k > Len(rs) THEN <<>>
    ELSE (IF rs[k].name \in DOMAIN env THEN <<>> ELSE <<rs[k].name>>)
         \o AbsentNames(rs, env, k + 1)

\* The positions of an empty-name reference "${}" that no reference encloses.
EmptyRefs(text) ==
    {i \in 1..(Len(text) - 2) :
        /\ text[i] = "$" /\ text[i + 1] = "{" /\ text[i + 2] = "}"
        /\ \A r \in Refs(text) : ~(r[1] < i /\ i < r[2])}

Count(s, x) == Cardinality({i \in 1..Len(s) : s[i] = x})

----------------------------------------------------------------------------
\* Properties of substitute_tokens (under SubSpec)

\* C5: every reference to a name absent from the environment is replaced
\* with the placeholder incorporating that name, and the missing-list is
\* exactly the absent names, one entry per reference, in the order the
\* references are met in the text.
C5_AbsentReplacedAndListed ==
    sub_pc = "done" =>
        LET rs == RefSeq(content) IN
        /\ missing = AbsentNames(rs, environ, 1)
        /\ \A k \in 1..Len(rs) :
              rs[k].name \notin DOMAIN environ =>
                 /\ HoldsAt(substituted, OutStart(rs, environ, k), Placeholder(rs[k].name))
                 /\ Count(missing, rs[k].name)
                       = Cardinality({m \in 1..Len(rs) : rs[m].name = rs[k].name})

\* Witness of C5: two references to the same absent name, both listed.
C5_Witness ==
    /\ sub_pc = "done"
    /\ content = <<"$", "{", "a", "}", "$", "{", "a", "}">>
    /\ <<"a">> \notin DOMAIN environ
    /\ missing = <<<<"a">>, <<"a">>>>
    /\ substituted = Placeholder(<<"a">>) \o Placeholder(<<"a">>)

\* C6: every reference to a name present in the environment, the empty
\* value included, is replaced with exactly that value, and no present name
\* is in the missing-list.
C6_PresentReplacedByValue ==
    sub_pc = "done" =>
        LET rs == RefSeq(content) IN
        /\ \A k \in 1..Len(rs) :
              rs[k].name \in DOMAIN environ =>
                 HoldsAt(substituted, OutStart(rs, environ, k), environ[rs[k].name])
        /\ \A n \in DOMAIN environ : n \notin Range(missing)
        /\ Len(substituted) = Len(content) + Shift(rs, environ, Len(rs))

\* Witness of C6: a reference to a name whose value is the empty string,
\* which leaves nothing in the output.
C6_Witness ==
    /\ sub_pc = "done"
    /\ content = <<"$", "{", "a", "}">>
    /\ <<"a">> \in DOMAIN environ /\ environ[<<"a">>] = <<>>
    /\ substituted = <<>> /\ missing = <<>>

\* C7 as stated: a reference with an empty name is looked up, recorded in
\* the missing-list and substituted with the placeholder.
C7_EmptyNameRecorded ==
    (sub_pc = "done" /\ EmptyRefs(content) # {}) =>
        /\ <<>> \in Range(missing)
        /\ \E at \in 1..Len(substituted) : HoldsAt(substituted, at, Placeholder(<<>>))

\* C7 amended: the pattern needs one name character at least, so "${}" is
\* no reference: the empty name is never in the missing-list, and a "${}"
\* that no reference encloses is copied to the output as it is.
C7_EmptyNameLeftAlone ==
    sub_pc = "done" =>
        LET rs == RefSeq(content) IN
        /\ <<>> \notin Range(missing)
        /\ \A i \in EmptyRefs(content) :
              HoldsAt(substituted,
                      i + Shift(rs, environ, Cardinality({k \in 1..Len(rs) : rs[k].from < i})),
                      <<"$", "{", "}">>)

\* Witness of C7: the text "${}" alone, returned unchanged.
C7_Witness ==
    /\ sub_pc = "done"
    /\ content = <<"$", "{", "}">>
    /\ substituted = content /\ missing = <<>>

\* C9 as stated: the output holds no token reference any more, and the
\* placeholder of every missing name is a quoted literal whose content
\* holds no quote character.
C9_OutputFullyReplacedAndQuoted ==
    sub_pc = "done" =>
        /\ Refs(substituted) = {}
        /\ \A k \in 1..Len(missing) : "'" \notin Range(missing[k])

----------------------------------------------------------------------------
\* validate_file and main

\* CHANGED_FILES after split(): a list of paths, a path being its stem
\* followed by its extensions.
Paths == {<<"a", ".snowsql">>, <<"b", ".snowsql">>, <<"c", ".sql">>}

\* What a candidate file may hold.
FileContents == {<<"a">>, <<"$", "{", "a", "}">>}

\* The environments main runs in: the name a unset, or set.
MainEnvs == {e \in Envs : <<"a">> \in DOMAIN e => e[<<"a">>] = <<"}", "a">>}

\* What the checker may print and return.
Stdouts     == {<<"ok", "\n">>, <<"\n", "[UNPARSABLE]", "\n">>}
Stderrs     == {<<>>, <<"FATAL">>}
ReturnCodes == {0, 1, 2, -11}

\* The report a previous run left at ERROR_LOG.
StaleLog == <<[file |-> <<"z", ".snowsql">>, output |-> <<"old">>]>>

TimeoutMessage == <<"Validation timed out after 120 seconds.">>

\* f.endswith('.snowsql')
EndsWithSnowsql(f) == f[Len(f)] = ".snowsql"

\* marker in output
Contains(out, marker) == \E i \in 1..Len(out) : out[i] = marker

\* has_error with 'returncode != 0'.
HasErrorNonZero(returncode, out) ==
    \/ Contains(out, "[UNPARSABLE]")
    \/ Contains(out, "FATAL")
    \/ returncode # 0

\* has_error
HasError(returncode, out) ==
    \/ Contains(out, "[UNPARSABLE]")
    \/ Contains(out, "FATAL")
    \/ returncode \notin {0, 1}

\* output.strip()
RECURSIVE LStrip(_)
LStrip(out) == IF out # <<>> /\ Head(out) = "\n" THEN LStrip(Tail(out)) ELSE out

RECURSIVE RStrip(_)
RStrip(out) ==
    IF out # <<>> /\ out[Len(out)] = "\n" THEN RStrip(SubSeq(out, 1, Len(out) - 1))
    ELSE out

Strip(out) == RStrip(LStrip(out))

\* The append of a failure put in front of the list.
PrependError(errors, file, out) == <<[file |-> file, output |-> Strip(out)]>> \o errors

\* all_errors.append({'file': filepath, 'output': output.strip()})
AppendError(errors, file, out) == Append(errors, [file |-> file, output |-> Strip(out)])

\* The report opened in append mode.
AppendedReport(old, errors) == old \o errors

\* open(ERROR_LOG, 'w') and one block per entry of all_errors.
WrittenReport(old, errors) == errors

\* The exit status taken from the last candidate alone.
ExitStatusOfLast(failed, n) == IF failed # <<>> /\ Len(failed) = n THEN 1 ELSE 0

\* sys.exit(1) if failed_files else sys.exit(0); n is len(files).
ExitStatus(failed, n) == IF failed # <<>> THEN 1 ELSE 0

Init ==
    /\ pc = "start"
    /\ files_env \in SeqsUpTo(Paths, MaxFiles)
    /\ disk \in SUBSET Paths
    /\ environ \in MainEnvs
    /\ files = <<>> /\ idx = 0
    /\ all_errors = <<>> /\ failed_files = <<>> /\ exit_code = 0
    /\ error_log = StaleLog /\ log_written = FALSE
    /\ tmp_files = {} /\ tmp_path = 0 /\ tmp_made = 0 /\ result = NoResult
    /\ passed = FALSE /\ output = <<>> /\ missing_tokens = <<>> /\ exc = "none"
    /\ runs = <<>> /\ returned = <<>>
    /\ sub_pc = "idle" /\ content = <<>> /\ substituted = <<>> /\ missing = <<>>

\* main, lines 96-100: CHANGED_FILES is empty.
ExitNoChangedFiles ==
    /\ pc = "start"
    /\ files_env = <<>>
    /\ exit_code' = 0
    /\ pc' = "exited"
    /\ UNCHANGED <<files_env, disk, files, idx, all_errors, failed_files,
                   error_log, log_written, subVars, callVars, histVars>>

\* main, lines 102-106: no entry ends with .snowsql.
ExitNoSnowsql ==
    /\ pc = "start"
    /\ files_env # <<>>
    /\ SelectSeq(files_env, EndsWithSnowsql) = <<>>
    /\ files' = <<>>
    /\ exit_code' = 0
    /\ pc' = "exited"
    /\ UNCHANGED <<files_env, disk, idx, all_errors, failed_files,
                   error_log, log_written, subVars, callVars, histVars>>

\* main, lines 102-114: the candidates, and the empty result lists.
BeginLoop ==
    /\ pc = "start"
    /\ files_env # <<>>
    /\ SelectSeq(files_env, EndsWithSnowsql) # <<>>
    /\ files' = SelectSeq(files_env, EndsWithSnowsql)
    /\ idx' = 1
    /\ all_errors' = <<>> /\ failed_files' = <<>>
    /\ runs' = [i \in 1..Len(files') |-> 0]
    /\ returned' = [i \in 1..Len(files') |-> "none"]
    /\ pc' = "loop"
    /\ UNCHANGED <<files_env, disk, exit_code, error_log, log_written,
                   subVars, callVars>>

\* main, lines 119-121: the file is not on disk; continue.
SkipAbsent ==
    /\ pc = "loop"
    /\ idx <= Len(files)
    /\ files[idx] \notin disk
    /\ idx' = idx + 1
    /\ UNCHANGED <<pc, files_env, disk, files, all_errors, failed_files, exit_code,
                   error_log, log_written, subVars, callVars, histVars>>

\* validate_file, lines 49-58: read the file, substitute, create the
\* temporary file (delete=False).
OpenTemp ==
    /\ pc = "loop"
    /\ idx <= Len(files)
    /\ files[idx] \in disk
    /\ \E c \in FileContents :
          /\ content' = c
          /\ substituted' = substitute_tokens(c, environ).text
          /\ missing' = substitute_tokens(c, environ).missing
          /\ missing_tokens' = substitute_tokens(c, environ).missing
    /\ tmp_made' = tmp_made + 1
    /\ tmp_path' = tmp_made + 1
    /\ tmp_files' = tmp_files \cup {tmp_made + 1}
    /\ pc' = "tmp_write"
    /\ UNCHANGED <<sub_pc, environ, files_env, disk, files, idx, all_errors,
                   failed_files, exit_code, error_log, log_written,
                   result, passed, output, exc, histVars>>

\* validate_file, lines 59-60: the substituted text is written and the
\* file closed.
WriteTemp ==
    /\ pc = "tmp_write"
    /\ pc' = "run"
    /\ UNCHANGED <<files_env, disk, files, idx, all_errors, failed_files, exit_code,
                   error_log, log_written, subVars, callVars, histVars>>

\* validate_file, lines 56-60: tmp.write (or the flush at the end of the
\* with block) raises; the with block closes the file, and the exception
\* leaves validate_file before the try of line 62 is entered, and main.
WriteTempFails ==
    /\ pc = "tmp_write"
    /\ exc' = "write"
    /\ pc' = "fault"
    /\ UNCHANGED <<files_env, disk, files, idx, all_errors, failed_files, exit_code,
                   error_log, log_written, subVars, tmp_files, tmp_path, tmp_made,
                   result, passed, output, missing_tokens, histVars>>

\* validate_file, lines 63-85: the checker runs to its end; classify.
RunChecker ==
    /\ pc = "run"
    /\ \E rc \in ReturnCodes, so \in Stdouts, se \in Stderrs :
          /\ result' = [kind |-> "completed", returncode |-> rc,
                        stdout |-> so, stderr |-> se]
          /\ output' = so \o se
          /\ passed' = ~HasError(rc, so \o se)
    /\ runs' = [runs EXCEPT ![idx] = @ + 1]
    /\ exc' = "none"
    /\ pc' = "finally"
    /\ UNCHANGED <<files_env, disk, files, idx, all_errors, failed_files, exit_code,
                   error_log, log_written, subVars, tmp_files, tmp_path, tmp_made,
                   missing_tokens, returned>>

\* The timeout with no except clause for it.
RunTimeoutUncaught ==
    /\ pc = "run"
    /\ result' = [NoResult EXCEPT !.kind = "timeout"]
    /\ runs' = [runs EXCEPT ![idx] = @ + 1]
    /\ exc' = "timeout"
    /\ pc' = "finally"
    /\ UNCHANGED <<files_env, disk, files, idx, all_errors, failed_files, exit_code,
                   error_log, log_written, subVars, tmp_files, tmp_path, tmp_made,
                   passed, output, missing_tokens, returned>>

\* validate_file, lines 63-74 and 87-88: the checker exceeds the timeout;
\* subprocess.run kills it and raises TimeoutExpired, which is caught.
RunTimeout ==
    /\ pc = "run"
    /\ result' = [NoResult EXCEPT !.kind = "timeout"]
    /\ output' = TimeoutMessage
    /\ passed' = FALSE
    /\ runs' = [runs EXCEPT ![idx] = @ + 1]
    /\ exc' = "none"
    /\ pc' = "finally"
    /\ UNCHANGED <<files_env, disk, files, idx, all_errors, failed_files, exit_code,
                   error_log, log_written, subVars, tmp_files, tmp_path, tmp_made,
                   missing_tokens, returned>>

\* validate_file, lines 63-74: subprocess.run cannot start the checker and
\* raises OSError, which no except clause catches.
RunLaunchFails ==
    /\ pc = "run"
    /\ result' = [NoResult EXCEPT !.kind = "oserror"]
    /\ runs' = [runs EXCEPT ![idx] = @ + 1]
    /\ exc' = "launch"
    /\ pc' = "finally"
    /\ UNCHANGED <<files_env, disk, files, idx, all_errors, failed_files, exit_code,
                   error_log, log_written, subVars, tmp_files, tmp_path, tmp_made,
                   passed, output, missing_tokens, returned>>

\* validate_file, lines 89-90: the finally clause removes the temporary
\* file; then the function returns, or the pending exception goes on.
Finally ==
    /\ pc = "finally"
    /\ tmp_files' = tmp_files \ {tmp_path}
    /\ IF exc = "none"
       THEN /\ returned' = [returned EXCEPT ![idx] = IF passed THEN "pass" ELSE "fail"]
            /\ pc' = "record"
       ELSE /\ returned' = returned
            /\ pc' = "fault"
    /\ UNCHANGED <<files_env, disk, files, idx, all_errors, failed_files, exit_code,
                   error_log, log_written, subVars, tmp_path, tmp_made, result,
                   passed, output, missing_tokens, exc, runs>>

\* main, lines 129-130: the file passed.  The locals of the loop body are
\* dead from here on and go back to their initial values.
RecordPassed ==
    /\ pc = "record"
    /\ passed
    /\ idx' = idx + 1
    /\ pc' = "loop"
    /\ result' = NoResult /\ passed' = FALSE /\ output' = <<>>
    /\ missing_tokens' = <<>> /\ tmp_path' = 0
    /\ content' = <<>> /\ substituted' = <<>> /\ missing' = <<>>
    /\ UNCHANGED <<sub_pc, environ, files_env, disk, files, all_errors, failed_files,
                   exit_code, error_log, log_written, tmp_files, tmp_made, exc,
                   histVars>>

\* main, lines 131-140: the file failed.
RecordFailed ==
    /\ pc = "record"
    /\ ~passed
    /\ failed_files' = Append(failed_files, files[idx])
    /\ all_errors' = AppendError(all_errors, files[idx], output)
    /\ idx' = idx + 1
    /\ pc' = "loop"
    /\ result' = NoResult /\ passed' = FALSE /\ output' = <<>>
    /\ missing_tokens' = <<>> /\ tmp_path' = 0
    /\ content' = <<>> /\ substituted' = <<>> /\ missing' = <<>>
    /\ UNCHANGED <<sub_pc, environ, files_env, disk, files, exit_code, error_log,
                   log_written, tmp_files, tmp_made, exc, histVars>>

\* main, lines 143-148: there are errors; write the report.
WriteReport ==
    /\ pc = "loop"
    /\ idx > Len(files)
    /\ all_errors # <<>>
    /\ error_log' = WrittenReport(error_log, all_errors)
    /\ log_written' = TRUE
    /\ pc' = "summary"
    /\ UNCHANGED <<files_env, disk, files, idx, all_errors, failed_files, exit_code,
                   subVars, callVars, histVars>>

\* main, line 143: there are no errors; no report.
SkipReport ==
    /\ pc = "loop"
    /\ idx > Len(files)
    /\ all_errors = <<>>
    /\ pc' = "summary"
    /\ UNCHANGED <<files_env, disk, files, idx, all_errors, failed_files, exit_code,
                   error_log, log_written, subVars, callVars, histVars>>

\* main, lines 150-159: the summary and sys.exit.
Exit ==
    /\ pc = "summary"
    /\ exit_code' = ExitStatus(failed_files, Len(files))
    /\ pc' = "exited"
    /\ UNCHANGED <<files_env, disk, files, idx, all_errors, failed_files,
                   error_log, log_written, subVars, callVars, histVars>>

\* lines 162-163: an exception that leaves main is not caught; the
\* interpreter prints the traceback and the process exits with status 1.
UncaughtExit ==
    /\ pc = "fault"
    /\ exit_code' = 1
    /\ pc' = "crashed"
    /\ UNCHANGED <<files_env, disk, files, idx, all_errors, failed_files,
                   error_log, log_written, subVars, callVars, histVars>>

Next ==
    \/ ExitNoChangedFiles
    \/ ExitNoSnowsql
    \/ BeginLoop
    \/ SkipAbsent
    \/ OpenTemp
    \/ WriteTemp
    \/ WriteTempFails
    \/ RunChecker
    \/ RunTimeout
    \/ RunLaunchFails
    \/ Finally
    \/ RecordPassed
    \/ RecordFailed
    \/ WriteReport
    \/ SkipReport
    \/ Exit
    \/ UncaughtExit

Spec == Init /\ [][Next]_vars

----------------------------------------------------------------------------
\* Properties of main and validate_file (under Spec)

\* The loop over the candidates has ended and main goes on to its end.
LoopDone == files # <<>> /\ pc \in {"summary", "exited"}

\* The candidates for which validate_file returned a failure, in order.
RECURSIVE FailedFrom(_, _, _)
FailedFrom(fs, ret, i) ==
    IF i > Len(fs) THEN <<>>
    ELSE (IF ret[i] = "fail" THEN <<fs[i]>> ELSE <<>>) \o FailedFrom(fs, ret, i + 1)

C2_Classification ==
    (pc = "finally" /\ result.kind = "completed") =>
        LET out == result.stdout \o result.stderr IN
        /\ Contains(out, "[UNPARSABLE]") => ~passed
        /\ (/\ result.returncode \in {0, 1}
            /\ ~Contains(out, "[UNPARSABLE]")
            /\ ~Contains(out, "FATAL")) => passed

\* Witness of C2: exit status 1 and a clean output, classified as passed.
C2_Witness ==
    /\ pc = "finally" /\ result.kind = "completed"
    /\ result.returncode = 1
    /\ ~Contains(output, "[UNPARSABLE]") /\ ~Contains(output, "FATAL")
    /\ passed

\* C3 as stated: whenever validate_file is not in progress, whether it
\* returned or raised, no temporary file exists.
C3_NoTempFileLeft ==
    pc \notin {"tmp_write", "run", "finally"} => tmp_files = {}

\* C4: a checker that crashes, exits with an unexpected status or times out
\* gives a failed result (the timeout with its own message), never an
\* exception that ends the run; no candidate is run twice, and when the
\* loop ends every candidate on disk has been run once.
C4_FailuresDoNotAbort ==
    /\ \A i \in 1..Len(runs) : runs[i] <= 1
    /\ LoopDone =>
          \A i \in 1..Len(files) : runs[i] = (IF files[i] \in disk THEN 1 ELSE 0)
    /\ (pc = "finally" /\ result.kind = "timeout") =>
          exc = "none" /\ ~passed /\ output = TimeoutMessage
    /\ (pc = "finally" /\ result.kind = "completed" /\ result.returncode \notin {0, 1}) =>
          exc = "none" /\ ~passed
    /\ pc \in {"fault", "crashed"} => result.kind \notin {"timeout", "completed"}

\* Witness of C4: the second candidate is validated after the first one
\* failed, and its checker run times out.
C4_Witness ==
    /\ pc = "finally" /\ idx = 2
    /\ returned[1] = "fail"
    /\ result.kind = "timeout" /\ ~passed

\* C8: between loop bodies and at the end of the loop, the failed list holds
\* exactly the candidates for which validate_file returned a failure, one
\* entry each, in the order of the input, all_errors pairs each with its
\* diagnostic, and a candidate that is not on disk was never validated.
C8_FailedListInOrder ==
    (files # <<>> /\ pc \in {"loop", "summary", "exited"}) =>
        /\ failed_files = FailedFrom(files, returned, 1)
        /\ Len(all_errors) = Len(failed_files)
        /\ \A k \in 1..Len(all_errors) : all_errors[k].file = failed_files[k]
        /\ \A i \in 1..Len(files) :
              files[i] \notin disk => returned[i] = "none" /\ runs[i] = 0

\* Witness of C8: three candidates, the first and the last failed, the one
\* between them did not.
C8_Witness ==
    /\ pc = "exited" /\ Len(files) = 3
    /\ files[1] # files[3]
    /\ returned[1] = "fail" /\ returned[2] # "fail" /\ returned[3] = "fail"
    /\ failed_files = <<files[1], files[3]>>

\* C10 as stated: in every run, the report is written if and only if the
\* run ends with exit status 1; it then holds one block per failed file, in
\* the order of the failed list; otherwise it is left as it was.
C10_ReportIffExitOneInEveryRun ==
    /\ ~log_written => error_log = StaleLog
    /\ pc \in {"exited", "crashed"} =>
          /\ log_written <=> exit_code = 1
          /\ log_written =>
                /\ Len(error_log) = Len(failed_files)
                /\ \A k \in 1..Len(error_log) : error_log[k].file = failed_files[k]

\* C10 amended: in every run that ends at a sys.exit of main, the report is
\* written if and only if the status is 1; it then holds one block per
\* failed file, in the order of the failed list; with status 0 it is left
\* as it was.  A run that an uncaught exception ends has status 1 and
\* leaves the report as it was.
C10_ReportIffExitOne ==
    /\ ~log_written => error_log = StaleLog
    /\ pc = "exited" =>
          /\ log_written <=> exit_code = 1
          /\ log_written =>
                /\ Len(error_log) = Len(failed_files)
                /\ \A k \in 1..Len(error_log) :
                      /\ error_log[k].file = failed_files[k]
                      /\ error_log[k].output = all_errors[k].output
    /\ pc = "crashed" => exit_code = 1 /\ ~log_written

\* Witness of C10: an exit with status 1 and a report of two blocks.
C10_Witness ==
    /\ pc = "exited" /\ exit_code = 1
    /\ log_written /\ Len(error_log) = 2

====
